---- MODULE Spec2Model ----
(***************************************************************************)
(* clipper: keyboard-layout detection and conversion                      *)
(* (clipper/processors/layout_detector.py, layout_converter.py), and the  *)
(* engine and command line around them (clipper/engine.py,                *)
(* clipper/__init__.py, clipper/clipboard.py).                            *)
(*                                                                         *)
(* A text is a sequence of characters.  Latin characters are written as   *)
(* themselves; a Cyrillic character is written by its Unicode name:       *)
(*   "cyr_sha" = U+0448, "cyr_ya" = U+044F,                                *)
(*   "CYR_SHA" = U+0428 (capital), "cyr_er" = U+0440, "cyr_u" = U+0443,    *)
(*   "cyr_de" = U+0434, "cyr_shcha" = U+0449, "cyr_pe" = U+043F,           *)
(*   "cyr_i" = U+0438, "cyr_ve" = U+0432, "cyr_ie" = U+0435,               *)
(*   "cyr_te" = U+0442.                                                    *)
(* "CR" is the carriage return U+000D and "LF" the line feed U+000A.       *)
(*                                                                         *)
(* A float score is kept as an exact fraction <<numerator, denominator>>:  *)
(* every score of the code is a quotient of small integers (or a sum of   *)
(* such quotients over one denominator), so the comparisons of the code   *)
(* are comparisons of fractions.                                           *)
(* No two frequency scores of the texts below are equal unless both are   *)
(* 0.0, so the rounding of the float sums decides no comparison.           *)
(***************************************************************************)
EXTENDS Integers, Sequences, FiniteSets, TLC

VARIABLES
    text,                  \* the argument the calls are made with; in the
                           \* engine, the text read from the clipboard
    confidence_threshold,  \* LayoutDetector.confidence_threshold
    called,                \* the methods called so far
    detection,             \* result of get_detection_info(text)
    locals,                \* the scores detect_layout computed on the way
    can,                   \* result of can_process(text)
    processed,             \* result of process(text); in the engine,
                           \* processed_text
    branch,                \* the return statement process(text) left through
    \* the engine
    clipboard,             \* the text on the system clipboard
    undo_file,             \* ~/.clipper/undo_state: <<>> or <<its content>>
    processors,            \* ProcessingEngine.processors
    pc,                    \* where the running engine method stands
    op,                    \* the engine method running, or the last one run
    ret,                   \* what the last engine method returned
    printed,               \* the messages of the running (or last) method
    steps,                 \* the clipboard, prompt and undo-file accesses of
                           \* the running (or last) method, in order
    clipboard_before,      \* the clipboard when the method was called
    undo_before,           \* the undo file when the method was called
    response,              \* what input() gave process_clipboard_interactive
    overwritten,           \* the text on the clipboard when the method's
                           \* set_clipboard_text replaced it
    previous,              \* the engine method that ran before this one,
                           \* if it wrote the clipboard and returned True:
                           \* its name and the text it read
    run                    \* the running (or last) run of main

converter_vars == <<confidence_threshold, called, detection, locals, can, branch>>

engine_vars == <<clipboard, undo_file, processors, pc, op, ret, printed,
                 steps, clipboard_before, undo_before, response, overwritten,
                 previous,
                 run>>

vars == <<text, confidence_threshold, called, detection, locals, can,
          processed, branch, clipboard, undo_file, processors, pc, op, ret,
          printed, steps, clipboard_before, undo_before, response,
          overwritten, previous,
          run>>

\* Longest text of the exhaustive enumeration.
MaxLen == 3

------------------------------------------------------------------------------
(* Characters *)

LatinLower == {"i", "z", "h", "e", "l", "o", "g", "b", "d", "t", "n"}
LatinUpper == {"I"}
CyrLower == {"cyr_sha", "cyr_ya", "cyr_er", "cyr_u", "cyr_de",
             "cyr_shcha", "cyr_pe", "cyr_i", "cyr_ve", "cyr_ie", "cyr_te"}
CyrUpper == {"CYR_SHA"}
Digits == {"1"}
Punctuation == {"!"}
Whitespace == {" ", "CR", "LF"}

Chars == LatinLower \cup LatinUpper \cup CyrLower \cup CyrUpper
         \cup Digits \cup Punctuation \cup Whitespace

\* str.isalpha() of one character
isalpha(c) == c \in LatinLower \cup LatinUpper \cup CyrLower \cup CyrUpper

\* str.isspace() of one character
isspace(c) == c \in Whitespace

\* a character the regular expression class \w matches: letters and digits
\* (and the underscore, which is not among Chars)
IsWordChar(c) == isalpha(c) \/ c \in Digits

\* str.lower() of one character
lower_char(c) ==
    CASE c = "I" -> "i"
      [] c = "CYR_SHA" -> "cyr_sha"
      [] c = "Y" -> "y"
      [] c = "E" -> "e"
      [] c = "S" -> "s"
      [] c = "N" -> "n"
      [] OTHER -> c

\* str.lower()
lower(s) == [i \in 1..Len(s) |-> lower_char(s[i])]

\* `not text.strip()`: the text is empty or whitespace only
IsBlankOnlyEmpty(s) == s = <<>>
IsBlank(s) == \A i \in 1..Len(s) : isspace(s[i])

------------------------------------------------------------------------------
(* clipper/mappings/layouts.py: the static tables.  The file is not among  *)
(* the sources; the tables are the part of them over Chars, as the         *)
(* specification describes them: key-position maps between the two        *)
(* alphabets, defined in both directions, for lower and upper case;       *)
(* relative letter frequencies on a 0-100 scale (here in tenths of a        *)
(* percent); sets of common lowercase words.                              *)

RU_TO_EN_MAPPING ==
    [c \in CyrLower \cup CyrUpper |->
        CASE c = "cyr_sha" -> "i"
          [] c = "cyr_ya" -> "z"
          [] c = "cyr_er" -> "h"
          [] c = "cyr_u" -> "e"
          [] c = "cyr_de" -> "l"
          [] c = "cyr_shcha" -> "o"
          [] c = "cyr_pe" -> "g"
          [] c = "cyr_i" -> "b"
          [] c = "cyr_ve" -> "d"
          [] c = "cyr_ie" -> "t"
          [] c = "cyr_te" -> "n"
          [] c = "CYR_SHA" -> "I"]

EN_TO_RU_MAPPING ==
    [c \in LatinLower \cup LatinUpper |->
        CASE c = "i" -> "cyr_sha"
          [] c = "z" -> "cyr_ya"
          [] c = "h" -> "cyr_er"
          [] c = "e" -> "cyr_u"
          [] c = "l" -> "cyr_de"
          [] c = "o" -> "cyr_shcha"
          [] c = "g" -> "cyr_pe"
          [] c = "b" -> "cyr_i"
          [] c = "d" -> "cyr_ve"
          [] c = "t" -> "cyr_ie"
          [] c = "n" -> "cyr_te"
          [] c = "I" -> "CYR_SHA"]

RUSSIAN_CHAR_FREQUENCY ==
    [c \in CyrLower |->
        CASE c = "cyr_sha" -> 7
          [] c = "cyr_ya" -> 20
          [] c = "cyr_er" -> 47
          [] c = "cyr_u" -> 26
          [] c = "cyr_de" -> 30
          [] c = "cyr_shcha" -> 4
          [] c = "cyr_pe" -> 28
          [] c = "cyr_i" -> 74
          [] c = "cyr_ve" -> 45
          [] c = "cyr_ie" -> 85
          [] c = "cyr_te" -> 63]

ENGLISH_CHAR_FREQUENCY ==
    [c \in LatinLower |->
        CASE c = "i" -> 70
          [] c = "z" -> 1
          [] c = "h" -> 61
          [] c = "e" -> 127
          [] c = "l" -> 40
          [] c = "o" -> 75
          [] c = "g" -> 20
          [] c = "b" -> 15
          [] c = "d" -> 43
          [] c = "t" -> 91
          [] c = "n" -> 68]

COMMON_ENGLISH_WORDS ==
    { <<"i">>, <<"h", "e", "l", "l", "o">> }

COMMON_RUSSIAN_WORDS ==
    { <<"cyr_ya">>,
      <<"cyr_pe", "cyr_er", "cyr_i", "cyr_ve", "cyr_ie", "cyr_te">> }

------------------------------------------------------------------------------
(* Fractions *)

Zero == <<0, 1>>
One == <<1, 1>>
RGt(a, b) == a[1] * b[2] > b[1] * a[2]
RGe(a, b) == a[1] * b[2] >= b[1] * a[2]
REq(a, b) == a[1] * b[2] = b[1] * a[2]
RMin(a, b) == IF RGt(a, b) THEN b ELSE a
RMax(a, b) == IF RGt(b, a) THEN b ELSE a

RECURSIVE SumOver(_, _)
\* the sum of f[c] over the characters c of the set S
SumOver(S, f) ==
    IF S = {} THEN 0
    ELSE LET c == CHOOSE x \in S : TRUE
         IN  f[c] + SumOver(S \ {c}, f)

Min2(a, b) == IF a < b THEN a ELSE b

------------------------------------------------------------------------------
(* LayoutDetector *)

\* re.findall(r"\b\w+\b", s): the maximal runs of word characters of s
RunLen(s) ==
    CHOOSE n \in 1..Len(s) :
        /\ \A i \in 1..n : IsWordChar(s[i])
        /\ n = Len(s) \/ ~IsWordChar(s[n + 1])

RECURSIVE findall_words(_)
findall_words(s) ==
    IF s = <<>> THEN <<>>
    ELSE IF ~IsWordChar(Head(s)) THEN findall_words(Tail(s))
    ELSE LET n == RunLen(s)
         IN  <<SubSeq(s, 1, n)>> \o findall_words(SubSeq(s, n + 1, Len(s)))

\* LayoutDetector._convert_text, with the lookup made on the lowered character
Detector_convert_text_lowered(s, mapping) ==
    [i \in 1..Len(s) |->
        IF lower_char(s[i]) \in DOMAIN mapping
        THEN mapping[lower_char(s[i])] ELSE s[i]]

\* LayoutDetector._convert_text: mapping.get(char, char) for each character
Detector_convert_text(s, mapping) ==
    [i \in 1..Len(s) |-> IF s[i] \in DOMAIN mapping THEN mapping[s[i]] ELSE s[i]]

\* LayoutDetector._calculate_frequency_score.  With total_chars alphabetic
\* characters, actual_freq = count / total_chars and expected_freq =
\* char_freq[char] / 100 (the tables here hold tenths of a percent), so the
\* sum of the minima is a fraction over 1000 * total_chars.
_calculate_frequency_score(s, language) ==
    LET char_freq == IF language = "ru" THEN RUSSIAN_CHAR_FREQUENCY
                     ELSE ENGLISH_CHAR_FREQUENCY
        low == lower(s)
        alpha == {i \in 1..Len(low) : isalpha(low[i])}
        total_chars == Cardinality(alpha)
        present == {low[i] : i \in alpha}
        count == [c \in present |-> Cardinality({i \in alpha : low[i] = c})]
        term == [c \in present |->
                    IF c \in DOMAIN char_freq
                    THEN Min2(char_freq[c] * total_chars, count[c] * 1000)
                    ELSE 0]
        score == <<SumOver(present, term), 1000 * total_chars>>
    IN  IF total_chars = 0 THEN Zero ELSE RMin(score, One)

\* the word score as the number of common words, not divided by the number
\* of words
WordScore_count(s, common_words) ==
    LET words == findall_words(lower(s))
    IN  IF words = <<>> THEN Zero
        ELSE <<Cardinality({i \in 1..Len(words) : words[i] \in common_words}), 1>>

\* the fraction of the words of s that are common words (0.0 without words)
WordScore(s, common_words) ==
    LET words == findall_words(lower(s))
    IN  IF words = <<>> THEN Zero
        ELSE <<Cardinality({i \in 1..Len(words) : words[i] \in common_words}),
               Len(words)>>

\* LayoutDetector._check_common_words_after_conversion
_check_common_words_after_conversion(s, conversion_type) ==
    IF conversion_type = "ru_to_en"
    THEN WordScore(Detector_convert_text(s, RU_TO_EN_MAPPING), COMMON_ENGLISH_WORDS)
    ELSE WordScore(Detector_convert_text(s, EN_TO_RU_MAPPING), COMMON_RUSSIAN_WORDS)

\* LayoutDetector._check_current_words
_check_current_words(s, language) ==
    WordScore(s, IF language = "ru" THEN COMMON_RUSSIAN_WORDS
                 ELSE COMMON_ENGLISH_WORDS)

\* detect_layout, line 56, with >= for >
apparent_layout_ge(ru_char_score, en_char_score) ==
    IF RGe(ru_char_score, en_char_score) THEN "ru" ELSE "en"

\* detect_layout, line 56: the layout the characters suggest
apparent_layout(ru_char_score, en_char_score) ==
    IF RGt(ru_char_score, en_char_score) THEN "ru" ELSE "en"

\* detect_layout, lines 51-68: the scores of a non-blank text
detect_layout_scores(s) ==
    [ ru_char_score |-> _calculate_frequency_score(s, "ru"),
      en_char_score |-> _calculate_frequency_score(s, "en"),
      ru_to_en_text |-> Detector_convert_text(s, RU_TO_EN_MAPPING),
      en_to_ru_text |-> Detector_convert_text(s, EN_TO_RU_MAPPING),
      ru_to_en_word_score |-> _check_common_words_after_conversion(s, "ru_to_en"),
      en_to_ru_word_score |-> _check_common_words_after_conversion(s, "en_to_ru"),
      current_ru_words |-> _check_current_words(s, "ru"),
      current_en_words |-> _check_current_words(s, "en") ]

LayoutDetectionResult(d, i, c, n) ==
    [ detected_layout |-> d, intended_layout |-> i,
      confidence |-> c, needs_conversion |-> n ]

\* detect_layout, lines 74-103, with the en->ru test made first
detect_layout_decision_ru_first(l, threshold) ==
    LET apparent == apparent_layout(l.ru_char_score, l.en_char_score)
    IN  IF /\ RGt(l.en_to_ru_word_score, l.current_ru_words)
           /\ RGt(l.en_to_ru_word_score, l.current_en_words)
           /\ RGe(l.en_to_ru_word_score, threshold)
        THEN LayoutDetectionResult(apparent, "ru", l.en_to_ru_word_score, TRUE)
        ELSE IF /\ RGt(l.ru_to_en_word_score, l.current_en_words)
                /\ RGt(l.ru_to_en_word_score, l.current_ru_words)
                /\ RGe(l.ru_to_en_word_score, threshold)
        THEN LayoutDetectionResult(apparent, "en", l.ru_to_en_word_score, TRUE)
        ELSE LayoutDetectionResult(apparent, apparent,
                                   RMax(l.ru_char_score, l.en_char_score), FALSE)

\* detect_layout, lines 74-103, with the comparison to the current word
\* scores left out: the threshold alone decides
detect_layout_decision_threshold_only(l, threshold) ==
    LET apparent == apparent_layout(l.ru_char_score, l.en_char_score)
    IN  IF RGe(l.ru_to_en_word_score, threshold)
        THEN LayoutDetectionResult(apparent, "en", l.ru_to_en_word_score, TRUE)
        ELSE IF RGe(l.en_to_ru_word_score, threshold)
        THEN LayoutDetectionResult(apparent, "ru", l.en_to_ru_word_score, TRUE)
        ELSE LayoutDetectionResult(apparent, apparent,
                                   RMax(l.ru_char_score, l.en_char_score), FALSE)

\* detect_layout, lines 74-103: the decision from the scores
detect_layout_decision(l, threshold) ==
    LET apparent == apparent_layout(l.ru_char_score, l.en_char_score)
    IN  IF /\ RGt(l.ru_to_en_word_score, l.current_en_words)
           /\ RGt(l.ru_to_en_word_score, l.current_ru_words)
           /\ RGe(l.ru_to_en_word_score, threshold)
        THEN LayoutDetectionResult(apparent, "en", l.ru_to_en_word_score, TRUE)
        ELSE IF /\ RGt(l.en_to_ru_word_score, l.current_ru_words)
                /\ RGt(l.en_to_ru_word_score, l.current_en_words)
                /\ RGe(l.en_to_ru_word_score, threshold)
        THEN LayoutDetectionResult(apparent, "ru", l.en_to_ru_word_score, TRUE)
        ELSE LayoutDetectionResult(apparent, apparent,
                                   RMax(l.ru_char_score, l.en_char_score), FALSE)

\* LayoutDetector.detect_layout
detect_layout(s, threshold) ==
    IF IsBlank(s)
    THEN LayoutDetectionResult("unknown", "unknown", Zero, FALSE)
    ELSE detect_layout_decision(detect_layout_scores(s), threshold)

------------------------------------------------------------------------------
(* LayoutConverter *)

\* LayoutConverter._convert_text, with an unmapped character replaced
Converter_convert_text_no_default(s, mapping) ==
    [i \in 1..Len(s) |-> IF s[i] \in DOMAIN mapping THEN mapping[s[i]] ELSE "?"]

\* LayoutConverter._convert_text, with an unmapped character left out
Converter_convert_text_drop(s, mapping) ==
    LET kept == SelectSeq(s, LAMBDA c : c \in DOMAIN mapping)
    IN  [i \in 1..Len(kept) |-> mapping[kept[i]]]

\* LayoutConverter._convert_text: mapping.get(char, char) for each character
Converter_convert_text(s, mapping) ==
    [i \in 1..Len(s) |-> IF s[i] \in DOMAIN mapping THEN mapping[s[i]] ELSE s[i]]

\* LayoutConverter.can_process
can_process(s, threshold) ==
    IF IsBlank(s) THEN FALSE
    ELSE detect_layout(s, threshold).needs_conversion

\* LayoutConverter.process, converting by the detected layout alone
process_return_always(s, threshold) ==
    LET d == detect_layout(s, threshold)
    IN  IF IsBlank(s) THEN [out |-> s, branch |-> "blank"]
        ELSE IF d.detected_layout = "ru"
        THEN [out |-> Converter_convert_text(s, RU_TO_EN_MAPPING),
              branch |-> "ru_to_en"]
        ELSE [out |-> Converter_convert_text(s, EN_TO_RU_MAPPING),
              branch |-> "en_to_ru"]

\* LayoutConverter.process: the text returned and the return statement taken
process_return(s, threshold) ==
    LET d == detect_layout(s, threshold)
    IN  IF IsBlank(s) THEN [out |-> s, branch |-> "blank"]
        ELSE IF ~d.needs_conversion THEN [out |-> s, branch |-> "no_conversion"]
        ELSE IF d.detected_layout = "ru" /\ d.intended_layout = "en"
        THEN [out |-> Converter_convert_text(s, RU_TO_EN_MAPPING),
              branch |-> "ru_to_en"]
        ELSE IF d.detected_layout = "en" /\ d.intended_layout = "ru"
        THEN [out |-> Converter_convert_text(s, EN_TO_RU_MAPPING),
              branch |-> "en_to_ru"]
        ELSE [out |-> s, branch |-> "defensive"]

\* LayoutConverter.process
process(s, threshold) == process_return(s, threshold).out

------------------------------------------------------------------------------
(* The texts and thresholds the calls are made with *)

\* the characters of the exhaustive enumeration
EnumChars == {"i", "z", "I", "cyr_sha", "cyr_ya", "CYR_SHA", " ", "1", "!"}

BoundedTexts == UNION {[1..n -> EnumChars] : n \in 0..MaxLen}

\* texts of the tests and of the specification's scenarios, and a text of
\* three words typed on one layout and one word typed on the other
SampleTexts ==
    { <<"cyr_er", "cyr_u", "cyr_de", "cyr_de", "cyr_shcha">>,
      <<"g", "h", "b", "d", "t", "n">>,
      <<"h", "e", "l", "l", "o">>,
      <<"cyr_pe", "cyr_er", "cyr_i", "cyr_ve", "cyr_ie", "cyr_te">>,
      <<"cyr_er", "cyr_u", "cyr_de", "cyr_de", "cyr_shcha", " ", "1", "!">>,
      <<"cyr_er", "cyr_u", "cyr_de", "cyr_de", "cyr_shcha", " ",
        "h", "e", "l", "l", "o">>,
      <<"z", " ", "z", " ", "z", " ", "cyr_sha">> }

Texts == BoundedTexts \cup SampleTexts

\* confidence thresholds: 0.0, 0.3 (the default) and 0.7 (the tests)
Thresholds == { <<0, 100>>, <<30, 100>>, <<70, 100>> }

------------------------------------------------------------------------------
(* The calls *)

\* the scores of a call that has not been made, or that returned before
\* computing any
NoScores ==
    [ ru_char_score |-> Zero, en_char_score |-> Zero,
      ru_to_en_text |-> <<>>, en_to_ru_text |-> <<>>,
      ru_to_en_word_score |-> Zero, en_to_ru_word_score |-> Zero,
      current_ru_words |-> Zero, current_en_words |-> Zero ]

\* no run of main: args is the set of flags given, status the exit status
\* (-1 while main has not exited), constructed whether ProcessingEngine()
\* was called, ops the engine methods main called
NoRun == [active |-> FALSE, args |-> {}, status |-> -1, constructed |-> FALSE,
          ops |-> <<>>]

\* input() not called
NoResponse == [kind |-> "none", line |-> <<>>]

\* no engine method ran before
NoCall == [op |-> "", ret |-> "none", text |-> <<>>, wrote |-> FALSE,
           overwritten |-> <<>>]

\* the engine with no method called yet (the converter is used alone)
EngineIdle ==
    /\ clipboard = <<>>
    /\ undo_file = <<>>
    /\ processors = <<"LayoutConverter">>
    /\ pc = "idle"
    /\ op = ""
    /\ ret = "none"
    /\ printed = {}
    /\ steps = <<>>
    /\ clipboard_before = <<>>
    /\ undo_before = <<>>
    /\ response = NoResponse
    /\ overwritten = <<>>
    /\ previous = NoCall
    /\ run = NoRun

Init ==
    /\ text \in Texts
    /\ confidence_threshold \in Thresholds
    /\ called = {}
    /\ detection = LayoutDetectionResult("", "", Zero, FALSE)
    /\ locals = NoScores
    /\ can = FALSE
    /\ processed = <<>>
    /\ branch = ""
    /\ EngineIdle

\* LayoutConverter.get_detection_info(text)
GetDetectionInfo ==
    /\ "get_detection_info" \notin called
    /\ called' = called \cup {"get_detection_info"}
    /\ detection' = detect_layout(text, confidence_threshold)
    /\ locals' = IF IsBlank(text) THEN NoScores ELSE detect_layout_scores(text)
    /\ UNCHANGED <<text, confidence_threshold, can, processed, branch>>
    /\ UNCHANGED engine_vars

\* LayoutConverter.can_process(text)
CanProcess ==
    /\ "can_process" \notin called
    /\ called' = called \cup {"can_process"}
    /\ can' = can_process(text, confidence_threshold)
    /\ UNCHANGED <<text, confidence_threshold, detection, locals, processed, branch>>
    /\ UNCHANGED engine_vars

\* LayoutConverter.process(text)
Process ==
    /\ "process" \notin called
    /\ called' = called \cup {"process"}
    /\ LET r == process_return(text, confidence_threshold)
       IN  /\ processed' = r.out
           /\ branch' = r.branch
    /\ UNCHANGED <<text, confidence_threshold, detection, locals, can>>
    /\ UNCHANGED engine_vars

Next == GetDetectionInfo \/ CanProcess \/ Process

Spec == Init /\ [][Next]_vars

------------------------------------------------------------------------------
(* Properties *)

\* the text is empty or holds whitespace only
WhitespaceOnly(s) == \A i \in 1..Len(s) : s[i] = " "

AllCalled == called = {"get_detection_info", "can_process", "process"}

\* the text mapped character by character through a table, identity outside it
MapChars(s, mapping) ==
    [i \in 1..Len(s) |-> IF s[i] \in DOMAIN mapping THEN mapping[s[i]] ELSE s[i]]

HasNonAlpha(s) == \E i \in 1..Len(s) : ~isalpha(s[i])

\* C1: for a non-blank text, if detect_layout reports needs_conversion then
\* intended_layout is "ru" or "en" and differs from detected_layout.
C1_NeedsConversionOtherLayout ==
    ("get_detection_info" \in called /\ ~WhitespaceOnly(text)
        /\ detection.needs_conversion)
    => /\ detection.intended_layout \in {"ru", "en"}
       /\ detection.intended_layout # detection.detected_layout

\* C2: when can_process(text) is true, process(text) is the text mapped
\* through the table of the accepted direction (RU_TO_EN_MAPPING for intended
\* "en", EN_TO_RU_MAPPING for intended "ru"), and process never leaves
\* through its defensive return.
C2_ProcessMapsAcceptedDirection ==
    (AllCalled /\ can)
    => /\ branch # "defensive"
       /\ processed = MapChars(text, IF detection.intended_layout = "en"
                                     THEN RU_TO_EN_MAPPING
                                     ELSE EN_TO_RU_MAPPING)

\* C3: when can_process(text) is false, process(text) returns the text
\* unchanged, and process converts nothing exactly when can_process is false:
\* process leaves before choosing a table if and only if can_process is false.
C3_CannotProcessUnchanged ==
    ({"can_process", "process"} \subseteq called)
    => /\ ~can => processed = text
       /\ ~can <=> branch \in {"blank", "no_conversion"}

C3_Witness ==
    /\ {"can_process", "process"} \subseteq called
    /\ ~can
    /\ ~WhitespaceOnly(text)
    /\ MapChars(text, EN_TO_RU_MAPPING) # text

C5_LengthPreserved ==
    ("process" \in called) => Len(processed) = Len(text)

C5_Witness ==
    /\ "process" \in called
    /\ branch = "ru_to_en"
    /\ processed # text
    /\ HasNonAlpha(text)

InDomain(s, mapping) == \A i \in 1..Len(s) : s[i] \in DOMAIN mapping

\* C6: the two maps are mutually inverse: each mapped pair (a, b) of one map
\* is the pair (b, a) of the other, and a text whose characters all lie in the
\* domain of one map is restored by converting it through that map and then
\* through the other.
C6_MapsMutuallyInverse ==
    /\ \A a \in DOMAIN RU_TO_EN_MAPPING :
          /\ RU_TO_EN_MAPPING[a] \in DOMAIN EN_TO_RU_MAPPING
          /\ EN_TO_RU_MAPPING[RU_TO_EN_MAPPING[a]] = a
    /\ \A b \in DOMAIN EN_TO_RU_MAPPING :
          /\ EN_TO_RU_MAPPING[b] \in DOMAIN RU_TO_EN_MAPPING
          /\ RU_TO_EN_MAPPING[EN_TO_RU_MAPPING[b]] = b
    /\ ("get_detection_info" \in called /\ ~WhitespaceOnly(text))
       => /\ InDomain(text, RU_TO_EN_MAPPING)
             => Detector_convert_text(locals.ru_to_en_text, EN_TO_RU_MAPPING) = text
          /\ InDomain(text, EN_TO_RU_MAPPING)
             => Detector_convert_text(locals.en_to_ru_text, RU_TO_EN_MAPPING) = text

C6_Witness ==
    /\ "get_detection_info" \in called
    /\ Len(text) > 1
    /\ InDomain(text, RU_TO_EN_MAPPING)
    /\ \E i \in 1..Len(text) : text[i] \in CyrUpper
    /\ locals.ru_to_en_text # text

\* C7: for an empty or whitespace-only text, detect_layout returns the
\* sentinel ("unknown", "unknown", 0.0, false) at every threshold, can_process
\* is false and process returns the text unchanged.
C7_BlankSentinel ==
    WhitespaceOnly(text)
    => /\ "get_detection_info" \in called
          => detection = LayoutDetectionResult("unknown", "unknown", Zero, FALSE)
       /\ "can_process" \in called => ~can
       /\ "process" \in called => processed = text

C7_Witness ==
    /\ AllCalled
    /\ WhitespaceOnly(text)
    /\ Len(text) > 0
    /\ confidence_threshold = <<0, 100>>

\* C8: for a non-blank text without an alphabetic character, both frequency
\* scores are 0.0, detected_layout is "en", the four word scores are 0.0 and
\* needs_conversion is false at every threshold.
C8_NoLettersNoConversion ==
    ("get_detection_info" \in called /\ ~WhitespaceOnly(text)
        /\ \A i \in 1..Len(text) : ~isalpha(text[i]))
    => /\ REq(locals.ru_char_score, Zero)
       /\ REq(locals.en_char_score, Zero)
       /\ detection.detected_layout = "en"
       /\ REq(locals.ru_to_en_word_score, Zero)
       /\ REq(locals.en_to_ru_word_score, Zero)
       /\ REq(locals.current_ru_words, Zero)
       /\ REq(locals.current_en_words, Zero)
       /\ ~detection.needs_conversion

C8_Witness ==
    /\ "get_detection_info" \in called
    /\ ~WhitespaceOnly(text)
    /\ \A i \in 1..Len(text) : ~isalpha(text[i])
    /\ \E i \in 1..Len(text) : text[i] \in Digits
    /\ \E i \in 1..Len(text) : text[i] \in Punctuation
    /\ confidence_threshold = <<0, 100>>

\* a direction qualifies: its word score is above both current word scores
\* and no less than the threshold
RuToEnQualifies ==
    /\ RGt(locals.ru_to_en_word_score, locals.current_en_words)
    /\ RGt(locals.ru_to_en_word_score, locals.current_ru_words)
    /\ RGe(locals.ru_to_en_word_score, confidence_threshold)

EnToRuQualifies ==
    /\ RGt(locals.en_to_ru_word_score, locals.current_ru_words)
    /\ RGt(locals.en_to_ru_word_score, locals.current_en_words)
    /\ RGe(locals.en_to_ru_word_score, confidence_threshold)

\* C9: for a non-blank text, needs_conversion is true exactly when a direction
\* qualifies; if ru->en qualifies the result is intended "en" with the ru->en
\* word score as confidence, even when en->ru qualifies too; otherwise, if
\* en->ru qualifies, intended "ru" with the en->ru word score as confidence.
C9_DecisionByWordScores ==
    ("get_detection_info" \in called /\ ~WhitespaceOnly(text))
    => /\ detection.needs_conversion <=> (RuToEnQualifies \/ EnToRuQualifies)
       /\ RuToEnQualifies
          => /\ detection.intended_layout = "en"
             /\ detection.confidence = locals.ru_to_en_word_score
       /\ (~RuToEnQualifies /\ EnToRuQualifies)
          => /\ detection.intended_layout = "ru"
             /\ detection.confidence = locals.en_to_ru_word_score

C9_Witness ==
    /\ "get_detection_info" \in called
    /\ ~WhitespaceOnly(text)
    /\ RuToEnQualifies
    /\ EnToRuQualifies
    /\ detection.intended_layout = "en"
    /\ detection.needs_conversion

\* C10: a text whose words are all common words of one language (a current
\* word score of 1.0) is not converted at any threshold: needs_conversion is
\* false, can_process is false and process returns the text unchanged.
C10_MeaningfulTextKept ==
    ("get_detection_info" \in called /\ ~WhitespaceOnly(text)
        /\ (REq(locals.current_ru_words, One) \/ REq(locals.current_en_words, One)))
    => /\ ~detection.needs_conversion
       /\ "can_process" \in called => ~can
       /\ "process" \in called => processed = text

C10_Witness ==
    /\ AllCalled
    /\ ~WhitespaceOnly(text)
    /\ REq(locals.current_ru_words, One)
    /\ Len(findall_words(text)) > 1
    /\ confidence_threshold = <<0, 100>>
    /\ processed = text

\* C11: the confidence detect_layout returns lies in [0.0, 1.0], on the
\* conversion branches (a word score) and on the no-conversion branch (the
\* larger frequency score).
C11_ConfidenceInUnitInterval ==
    ("get_detection_info" \in called)
    => /\ detection.confidence[2] > 0
       /\ RGe(detection.confidence, Zero)
       /\ RGe(One, detection.confidence)

C11_Witness ==
    /\ "get_detection_info" \in called
    /\ detection.needs_conversion
    /\ Len(findall_words(text)) > 1
    /\ REq(detection.confidence, One)

------------------------------------------------------------------------------
(* ProcessingEngine: the processors *)

\* the longest list of processors
MaxProcessors == 2

\* LayoutConverter and the processors of tests/test_engine.py: MockCannot is
\* MockProcessor(can_process_return=False), MockSame can process every text
\* and returns it as it is, ErrorProcessor raises in process
ProcessorKinds == {"LayoutConverter", "MockCannot", "MockSame", "ErrorProcessor"}

ProcessorLists == UNION {[1..n -> ProcessorKinds] : n \in 0..MaxProcessors}

\* LayoutConverter(): confidence_threshold = 0.3
DefaultThreshold == <<30, 100>>

\* processor.can_process(text)
proc_can_process(kind, t) ==
    CASE kind = "LayoutConverter" -> can_process(t, DefaultThreshold)
      [] kind = "MockCannot" -> FALSE
      [] OTHER -> TRUE

\* processor.process(text) with an ErrorProcessor that returns the text
proc_process_no_raise(kind, t) ==
    CASE kind = "LayoutConverter" ->
            [raised |-> FALSE, out |-> process(t, DefaultThreshold)]
      [] OTHER -> [raised |-> FALSE, out |-> t]

\* processor.process(text): whether it raised, and what it returned
proc_process(kind, t) ==
    CASE kind = "LayoutConverter" ->
            [raised |-> FALSE, out |-> process(t, DefaultThreshold)]
      [] kind = "ErrorProcessor" -> [raised |-> TRUE, out |-> t]
      [] OTHER -> [raised |-> FALSE, out |-> t]

\* ProcessingEngine._find_processor: the first processor that can process
\* the text, or "None"
_find_processor(procs, t) ==
    LET able == {i \in 1..Len(procs) : proc_can_process(procs[i], t)}
    IN  IF able = {} THEN "None"
        ELSE procs[CHOOSE i \in able : \A j \in able : i <= j]

\* ProcessingEngine._get_default_processor
_get_default_processor == "LayoutConverter"

\* the processor process_clipboard and process_clipboard_interactive use
\* (lines 63-68, 136-141), without the fallback to the default processor
select_processor_no_default(procs, t) == _find_processor(procs, t)

\* the processor process_clipboard and process_clipboard_interactive use
\* (lines 63-68, 136-141)
select_processor(procs, t) ==
    IF _find_processor(procs, t) = "None" THEN _get_default_processor
    ELSE _find_processor(procs, t)

------------------------------------------------------------------------------
(* ProcessingEngine: the undo file *)

\* a write_text that leaves the file empty
write_text_nothing(t) == <<>>

\* Path.write_text(text, encoding="utf-8") where os.linesep is "\n": the
\* characters as they are
write_text(t) == t

RECURSIVE read_text(_)
\* Path.read_text(encoding="utf-8"): the file is opened with universal
\* newlines, so "\r\n" and "\r" are read as "\n"
read_text(content) ==
    IF content = <<>> THEN <<>>
    ELSE IF Head(content) = "CR"
    THEN IF Len(content) > 1 /\ content[2] = "LF"
         THEN <<"LF">> \o read_text(SubSeq(content, 3, Len(content)))
         ELSE <<"LF">> \o read_text(Tail(content))
    ELSE <<Head(content)>> \o read_text(Tail(content))

------------------------------------------------------------------------------
(* ProcessingEngine: the prompt *)

RECURSIVE lstrip(_)
lstrip(s) == IF s # <<>> /\ isspace(Head(s)) THEN lstrip(Tail(s)) ELSE s

RECURSIVE rstrip(_)
rstrip(s) ==
    IF s # <<>> /\ isspace(s[Len(s)]) THEN rstrip(SubSeq(s, 1, Len(s) - 1)) ELSE s

\* str.strip()
strip(s) == rstrip(lstrip(s))

\* the answer accepted whatever it is
proceeds_always(line) == TRUE

\* process_clipboard_interactive, lines 160-161: the answer is "y" or "yes"
proceeds(line) == lower(strip(line)) \in { <<"y">>, <<"y", "e", "s">> }

\* what input() gives: a line, or an exception
Responses ==
    { [kind |-> "line", line |-> l] :
        l \in { <<"y">>, <<" ", "Y", "E", "S", " ">>, <<>>, <<"n">>,
                <<"y", "e">> } }
    \cup { [kind |-> "EOFError", line |-> <<>>],
           [kind |-> "KeyboardInterrupt", line |-> <<>>] }

------------------------------------------------------------------------------
(* ProcessingEngine and main: the state machine *)

EngineOps == {"process_clipboard", "process_clipboard_interactive", "dry_run", "undo"}

\* the flags of the command line that main reads (--verbose is parsed and
\* never read)
Flags == {"dry_run", "undo", "interactive"}
ArgSets == SUBSET Flags

\* main, lines 47-54, with --undo looked at before --dry-run
choose_operation_undo_first(args) ==
    IF "undo" \in args THEN "undo"
    ELSE IF "dry_run" \in args THEN "dry_run"
    ELSE IF "interactive" \in args THEN "process_clipboard_interactive"
    ELSE "process_clipboard"

\* main, lines 47-54: the engine method the flags select
choose_operation(args) ==
    IF "dry_run" \in args THEN "dry_run"
    ELSE IF "undo" \in args THEN "undo"
    ELSE IF "interactive" \in args THEN "process_clipboard_interactive"
    ELSE "process_clipboard"

\* the first statement of an engine method: undo loads the undo file, the
\* others read the clipboard
first_step(o) == IF o = "undo" THEN "load" ELSE "read"

\* what the clipboard can hold at the start
ClipTexts ==
    { <<>>, <<" ">>, <<"i">>, <<"z">>, <<"z", "CR", "LF">>, <<"cyr_sha", " ", "i">> }

\* the undo file at the start: absent, or left by an earlier run
UndoFiles == { <<>>, << <<"i">> >> }

\* whether the elements of a sequence include x
Has(seq, x) == \E i \in 1..Len(seq) : seq[i] = x

\* the method that has just run, as the next call remembers it: kept when
\* it wrote the clipboard and returned True
LastCall ==
    IF Has(steps, "write") /\ ret = "True"
    THEN [op |-> op, ret |-> ret, text |-> text, wrote |-> TRUE,
          overwritten |-> overwritten]
    ELSE NoCall

\* the engine method returns val; if main called it, main exits with status
\* 1 when it returned False (lines 56-57) and with status 0 otherwise
Returns(val) ==
    /\ pc' = "idle"
    /\ ret' = val
    /\ run' = IF run.active
              THEN [run EXCEPT !.active = FALSE,
                               !.status = IF val = "True" THEN 0 ELSE 1]
              ELSE run

\* the method goes on to its next statement
GoesOn(next) ==
    /\ pc' = next
    /\ UNCHANGED <<ret, run>>

InitEngine ==
    /\ text = <<>>
    /\ confidence_threshold = DefaultThreshold
    /\ called = {}
    /\ detection = LayoutDetectionResult("", "", Zero, FALSE)
    /\ locals = NoScores
    /\ can = FALSE
    /\ processed = <<>>
    /\ branch = ""
    /\ clipboard \in ClipTexts
    /\ undo_file \in UndoFiles
    /\ processors \in ProcessorLists
    /\ pc = "idle"
    /\ op = ""
    /\ ret = "none"
    /\ printed = {}
    /\ steps = <<>>
    /\ clipboard_before = clipboard
    /\ undo_before = undo_file
    /\ response = NoResponse
    /\ overwritten = <<>>
    /\ previous = NoCall
    /\ run = NoRun

\* a caller holding the engine calls one of its methods
Call ==
    /\ pc = "idle"
    /\ \E o \in EngineOps :
        /\ op' = o
        /\ pc' = first_step(o)
    /\ previous' = LastCall
    /\ overwritten' = <<>>
    /\ ret' = "none"
    /\ printed' = {}
    /\ steps' = <<>>
    /\ text' = <<>>
    /\ processed' = <<>>
    /\ response' = NoResponse
    /\ clipboard_before' = clipboard
    /\ undo_before' = undo_file
    /\ run' = NoRun
    /\ UNCHANGED <<clipboard, undo_file, processors>>
    /\ UNCHANGED converter_vars

\* main: the availability check, ProcessingEngine() and the choice of the
\* method; the method then runs, and main exits when it returns
Main ==
    /\ pc = "idle"
    /\ \E args \in ArgSets, available \in BOOLEAN :
        IF ~available
        THEN /\ run' = [active |-> FALSE, args |-> args, status |-> 1,
                        constructed |-> FALSE, ops |-> <<>>]
             /\ printed' = {"Error: Clipboard is not available or accessible."}
             /\ op' = ""
             /\ pc' = "idle"
             /\ processors' = processors
        ELSE /\ run' = [active |-> TRUE, args |-> args, status |-> -1,
                        constructed |-> TRUE, ops |-> <<choose_operation(args)>>]
             /\ printed' = {}
             /\ op' = choose_operation(args)
             /\ pc' = first_step(choose_operation(args))
             /\ processors' = <<"LayoutConverter">>
    /\ previous' = LastCall
    /\ overwritten' = <<>>
    /\ ret' = "none"
    /\ steps' = <<>>
    /\ text' = <<>>
    /\ processed' = <<>>
    /\ response' = NoResponse
    /\ clipboard_before' = clipboard
    /\ undo_before' = undo_file
    /\ UNCHANGED <<clipboard, undo_file>>
    /\ UNCHANGED converter_vars

\* text = get_clipboard_text() and the check of a blank text
\* (process_clipboard 55-61, process_clipboard_interactive 128-134,
\* dry_run 196-203)
ReadClipboard ==
    /\ pc = "read"
    /\ \E ok \in BOOLEAN :
        IF ~ok
        THEN /\ steps' = Append(steps, "read_failed")
             /\ printed' = printed \cup {"Clipboard error"}
             /\ text' = text
             /\ Returns("False")
        ELSE /\ steps' = Append(steps, "read")
             /\ text' = clipboard
             /\ IF ~IsBlank(clipboard)
                THEN /\ printed' = printed
                     /\ GoesOn("convert")
                ELSE IF op = "dry_run"
                THEN /\ printed' = printed \cup {"(empty or whitespace only)"}
                     /\ Returns("True")
                ELSE /\ printed' = printed
                        \cup {"Clipboard is empty or contains only whitespace."}
                     /\ Returns("False")
    /\ UNCHANGED <<processed, clipboard, undo_file, processors, op,
                   clipboard_before, undo_before, response, overwritten,
                   previous>>
    /\ UNCHANGED converter_vars

\* the processed text compared as equal to every text
text_changed_always(processed_text, t) == TRUE

\* "processed_text == text" (lines 74, 147, 218), negated
text_changed(processed_text, t) == processed_text # t

\* a dry_run that goes on to write the change it proposes
ConvertDryRun_applies ==
    LET processor == _find_processor(processors, text)
        r == proc_process(processor, text)
    IN  IF processor = "None" \/ r.raised \/ r.out = text
        THEN /\ printed' = printed
             /\ processed' = processed
             /\ Returns("True")
        ELSE /\ printed' = printed \cup {"Proposed changes:"}
             /\ processed' = r.out
             /\ GoesOn("write")

\* dry_run, lines 207-225: the processor found, if any, and what it proposes
ConvertDryRun ==
    LET processor == _find_processor(processors, text)
        r == proc_process(processor, text)
    IN  IF processor = "None"
        THEN /\ printed' = printed \cup {"No processor available for this text."}
             /\ processed' = processed
             /\ Returns("True")
        ELSE IF r.raised
        THEN /\ printed' = printed \cup {"Processing error"}
             /\ processed' = processed
             /\ Returns("False")
        ELSE /\ printed' = printed \cup
                    (IF text_changed(r.out, text) THEN {"Proposed changes:"}
                     ELSE {"No changes needed."})
             /\ processed' = r.out
             /\ Returns("True")

\* process_clipboard, lines 63-77, and process_clipboard_interactive, lines
\* 136-157: the processor, the processed text and whether it changed
ConvertProcess ==
    LET processor == select_processor(processors, text)
        r == proc_process(processor, text)
    IN  IF r.raised
        THEN /\ printed' = printed \cup {"Processing error"}
             /\ processed' = processed
             /\ Returns("False")
        ELSE IF ~text_changed(r.out, text)
        THEN /\ printed' = printed \cup {"no need to convert"}
             /\ processed' = r.out
             /\ Returns("True")
        ELSE /\ processed' = r.out
             /\ IF op = "process_clipboard_interactive"
                THEN /\ printed' = printed \cup {"Proposed conversion"}
                     /\ GoesOn("ask")
                ELSE /\ printed' = printed
                     /\ GoesOn("save")

\* the processor is found and run on the text read
Convert ==
    /\ pc = "convert"
    /\ steps' = Append(steps, "convert")
    /\ IF op = "dry_run" THEN ConvertDryRun ELSE ConvertProcess
    /\ UNCHANGED <<text, clipboard, undo_file, processors, op,
                   clipboard_before, undo_before, response, overwritten,
                   previous>>
    /\ UNCHANGED converter_vars

\* process_clipboard_interactive, lines 159-166: the prompt
Ask ==
    /\ pc = "ask"
    /\ \E r \in Responses :
        /\ response' = r
        /\ IF r.kind = "line" /\ proceeds(r.line)
           THEN /\ printed' = printed
                /\ GoesOn("save")
           ELSE /\ printed' = printed \cup {"Conversion cancelled."}
                /\ Returns("True")
    /\ steps' = Append(steps, "ask")
    /\ UNCHANGED <<text, processed, clipboard, undo_file, processors, op,
                   clipboard_before, undo_before, overwritten, previous>>
    /\ UNCHANGED converter_vars

\* _save_clipboard_for_undo(text), lines 25-31: the file is written, or
\* write_text raises before the file is opened ("failed") or after it was
\* opened and emptied ("truncated"); the exception is caught and the method
\* goes on
SaveUndo ==
    /\ pc = "save"
    /\ \E outcome \in {"ok", "failed", "truncated"} :
        /\ undo_file' = CASE outcome = "ok" -> <<write_text(text)>>
                          [] outcome = "failed" -> undo_file
                          [] OTHER -> << <<>> >>
        /\ steps' = Append(steps, IF outcome = "ok" THEN "save" ELSE "save_failed")
        /\ printed' = IF outcome = "ok" THEN printed
                      ELSE printed \cup {"Warning: Could not save undo state"}
    /\ GoesOn("write")
    /\ UNCHANGED <<text, processed, clipboard, processors, op,
                   clipboard_before, undo_before, response, overwritten,
                   previous>>
    /\ UNCHANGED converter_vars

\* undo, lines 243-247: previous_content = _load_clipboard_for_undo(), which
\* is None when the file does not exist or cannot be read
LoadUndo ==
    /\ pc = "load"
    /\ \E ok \in BOOLEAN :
        IF undo_file = <<>> \/ ~ok
        THEN /\ printed' = printed \cup {"No previous clipboard content to restore."}
             /\ processed' = processed
             /\ steps' = Append(steps, IF undo_file = <<>> THEN "load_none"
                                       ELSE "load_failed")
             /\ Returns("False")
        ELSE /\ printed' = printed
             /\ processed' = read_text(undo_file[1])
             /\ steps' = Append(steps, "load")
             /\ GoesOn("write")
    /\ UNCHANGED <<text, clipboard, undo_file, processors, op,
                   clipboard_before, undo_before, response, overwritten,
                   previous>>
    /\ UNCHANGED converter_vars

\* set_clipboard_text(processed_text) (process_clipboard 83-91,
\* process_clipboard_interactive 172-178) and
\* set_clipboard_text(previous_content) (undo 250-255)
WriteClipboard ==
    /\ pc = "write"
    /\ \E ok \in BOOLEAN :
        IF ok
        THEN /\ clipboard' = processed
             /\ overwritten' = clipboard
             /\ steps' = Append(steps, "write")
             /\ printed' = printed \cup {IF op = "undo" THEN "restored" ELSE "done"}
             /\ Returns("True")
        ELSE /\ clipboard' = clipboard
             /\ overwritten' = overwritten
             /\ steps' = Append(steps, "write_failed")
             /\ printed' = printed \cup {"Clipboard error"}
             /\ Returns("False")
    /\ UNCHANGED <<text, processed, undo_file, processors, op,
                   clipboard_before, undo_before, response, previous>>
    /\ UNCHANGED converter_vars

NextEngine ==
    \/ Call
    \/ Main
    \/ ReadClipboard
    \/ Convert
    \/ Ask
    \/ SaveUndo
    \/ LoadUndo
    \/ WriteClipboard

SpecEngine == InitEngine /\ [][NextEngine]_vars

------------------------------------------------------------------------------
(* The clipboard shared with other programs *)

\* what another program copies
ExternalTexts == { <<"i">> }

\* another program writes the system clipboard while process_clipboard or
\* process_clipboard_interactive is between its get_clipboard_text and its
\* set_clipboard_text: the engine holds no lock on the clipboard
ExternalWrite ==
    /\ op \in {"process_clipboard", "process_clipboard_interactive"}
    /\ pc \in {"convert", "ask", "save", "write"}
    /\ \E t \in ExternalTexts :
        /\ t # clipboard
        /\ clipboard' = t
    /\ UNCHANGED <<text, processed, undo_file, processors, pc, op, ret, printed,
                   steps, clipboard_before, undo_before, response, overwritten,
                   previous, run>>
    /\ UNCHANGED converter_vars

NextShared == NextEngine \/ ExternalWrite

\* the engine and main, with other programs writing the clipboard
SpecShared == InitEngine /\ [][NextShared]_vars

------------------------------------------------------------------------------
(* Properties of the engine *)

\* the engine method o has returned
Returned(o) == pc = "idle" /\ op = o /\ ret \in {"True", "False"}

\* process_clipboard or process_clipboard_interactive has returned
ReturnedProcess ==
    Returned("process_clipboard") \/ Returned("process_clipboard_interactive")

\* the method neither wrote nor tried to write the clipboard
NoClipboardWrite ==
    /\ clipboard = clipboard_before
    /\ ~Has(steps, "write")
    /\ ~Has(steps, "write_failed")

\* the method neither wrote nor tried to write the undo file
NoUndoWrite ==
    /\ undo_file = undo_before
    /\ ~Has(steps, "save")
    /\ ~Has(steps, "save_failed")

\* no registered processor can process the text read
NoneCanProcess == \A i \in 1..Len(processors) : ~proc_can_process(processors[i], text)

\* the first processor that can process the text read is an ErrorProcessor
ErrorProcessorSelected ==
    \E i \in 1..Len(processors) :
        /\ processors[i] = "ErrorProcessor"
        /\ \A j \in 1..(i - 1) : ~proc_can_process(processors[j], text)

\* C12: when no registered processor can process the non-blank text read,
\* process_clipboard reports that no processor is available, returns False
\* and does not write the clipboard.
C12_NoProcessorReturnsFalse ==
    ( /\ Returned("process_clipboard")
      /\ Has(steps, "read")
      /\ ~WhitespaceOnly(text)
      /\ NoneCanProcess )
    => /\ ret = "False"
       /\ "No processor available for this text." \in printed
       /\ NoClipboardWrite

\* C13: when the selected processor returns the text it was given,
\* process_clipboard and process_clipboard_interactive return True and write
\* neither the clipboard nor the undo file.
C13_UnchangedTextNoWrite ==
    ( /\ ReturnedProcess
      /\ Has(steps, "convert")
      /\ ~proc_process(select_processor(processors, text), text).raised
      /\ proc_process(select_processor(processors, text), text).out = text )
    => /\ ret = "True"
       /\ NoClipboardWrite
       /\ NoUndoWrite

\* an interactive call whose processor, one that accepted the text, returned
\* it unchanged
C13_Witness ==
    /\ Returned("process_clipboard_interactive")
    /\ Has(steps, "convert")
    /\ ~NoneCanProcess
    /\ processed = text
    /\ ret = "True"
    /\ "no need to convert" \in printed

\* C14: when reading the clipboard fails, or the text read is empty or
\* whitespace only, or the selected processor raises, process_clipboard
\* returns False and writes neither the clipboard nor the undo file.
C14_FailureReturnsFalseNoWrite ==
    ( /\ Returned("process_clipboard")
      /\ \/ Has(steps, "read_failed")
         \/ Has(steps, "read") /\ WhitespaceOnly(text)
         \/ Has(steps, "convert") /\ ErrorProcessorSelected )
    => /\ ret = "False"
       /\ NoClipboardWrite
       /\ NoUndoWrite

\* a call whose processor raised, after one that cannot process the text
C14_Witness ==
    /\ Returned("process_clipboard")
    /\ processors = <<"MockCannot", "ErrorProcessor">>
    /\ Has(steps, "convert")
    /\ "Processing error" \in printed
    /\ ret = "False"

\* some engine method has returned
ReturnedAny == pc = "idle" /\ op \in EngineOps /\ ret \in {"True", "False"}

\* C15: the undo file changes only in a call that also writes the converted
\* text to the clipboard and returns True; a call that returns False leaves
\* the undo file as it was.
C15_UndoSlotOnlyOnSuccess ==
    ReturnedAny
    => /\ (undo_file # undo_before)
            => /\ ret = "True"
               /\ Has(steps, "write")
               /\ clipboard = processed
       /\ (ret = "False") => (undo_file = undo_before)

\* the method before this one read t, wrote the clipboard and returned True
ConvertedBefore ==
    previous.op \in {"process_clipboard", "process_clipboard_interactive"}

\* C16: an undo that follows a process_clipboard (or a confirmed
\* process_clipboard_interactive) that read t, wrote the clipboard and
\* returned True, returns True and leaves the clipboard holding t; an undo
\* with no undo file returns False and does not write the clipboard.
\* (Taken with every file and clipboard access succeeding: the undo file
\* holds t when undo is called, and undo's load and write do not fail.)
C16_UndoRestoresPrevious ==
    /\ (Returned("undo") /\ ConvertedBefore /\ undo_before = <<previous.text>>
            /\ ~Has(steps, "load_failed") /\ ~Has(steps, "write_failed"))
        => /\ ret = "True"
           /\ clipboard = previous.text
    /\ (Returned("undo") /\ undo_before = <<>>)
        => /\ ret = "False"
           /\ NoClipboardWrite

\* the engine method the flags ask for, by priority
PriorityOperation(args) ==
    CASE "dry_run" \in args -> "dry_run"
      [] "dry_run" \notin args /\ "undo" \in args -> "undo"
      [] {"dry_run", "undo"} \cap args = {} /\ "interactive" \in args ->
            "process_clipboard_interactive"
      [] OTHER -> "process_clipboard"

\* main has exited
MainExited == ~run.active /\ run.status # -1

\* C17: a run of main calls at most one engine method, the one the flags
\* select by the priority --dry-run, --undo, --interactive, plain; it exits
\* with status 1 exactly when the clipboard is unavailable (then no engine
\* is constructed and no method runs) or the method returned False.
C17_MainOneOperationAndStatus ==
    /\ Len(run.ops) <= 1
    /\ run.active => /\ run.constructed
                     /\ run.ops = <<PriorityOperation(run.args)>>
                     /\ op = PriorityOperation(run.args)
    /\ MainExited
        => /\ run.status \in {0, 1}
           /\ run.constructed
                => /\ run.ops = <<PriorityOperation(run.args)>>
                   /\ op = PriorityOperation(run.args)
                   /\ ret \in {"True", "False"}
           /\ ~run.constructed
                => /\ run.ops = <<>>
                   /\ steps = <<>>
                   /\ clipboard = clipboard_before
                   /\ undo_file = undo_before
           /\ (run.status = 1) <=> (~run.constructed \/ ret = "False")

\* main --dry-run --undo --interactive ran dry_run and exited with status 0
C17_Witness ==
    /\ MainExited
    /\ run.args = {"dry_run", "undo", "interactive"}
    /\ run.status = 0
    /\ op = "dry_run"
    /\ ret = "True"

\* the accesses of the method, without the prompt
StepsWithoutAsk == SelectSeq(steps, LAMBDA x : x # "ask")

\* process_clipboard or process_clipboard_interactive is running or was the
\* last to run
IsProcess == op \in {"process_clipboard", "process_clipboard_interactive"}

\* C18 as stated: a process_clipboard or process_clipboard_interactive that
\* writes the clipboard has read the clipboard, converted, saved the text
\* read to the undo file and written the clipboard, in this order, and the
\* undo file holds the text read when the clipboard is written.
C18_SavedBeforeWrite ==
    (IsProcess /\ Has(steps, "write"))
    => /\ StepsWithoutAsk = <<"read", "convert", "save", "write">>
       /\ undo_file = <<text>>

\* C18, amended: a process_clipboard or process_clipboard_interactive that
\* writes the clipboard, or tries to, has before that read the clipboard,
\* converted and tried to save the text read to the undo file, in this
\* order; when the save succeeded the undo file holds the text read.
C18_SaveAttemptedBeforeWrite ==
    (IsProcess /\ (Has(steps, "write") \/ Has(steps, "write_failed")))
    => /\ SubSeq(StepsWithoutAsk, 1, 3) \in
              { <<"read", "convert", "save">>, <<"read", "convert", "save_failed">> }
       /\ Len(StepsWithoutAsk) = 4
       /\ Has(steps, "save") => undo_file = <<text>>

\* a call that saved the text read and then wrote the clipboard
C18_Witness ==
    /\ Returned("process_clipboard")
    /\ steps = <<"read", "convert", "save", "write">>
    /\ undo_file = <<text>>
    /\ undo_before # <<text>>
    /\ clipboard = processed
    /\ clipboard # text

\* the answers of Responses that are 'y' or 'yes' once stripped and
\* lower-cased
AffirmativeLines == { <<"y">>, <<" ", "Y", "E", "S", " ">> }

Affirmed == response.kind = "line" /\ response.line \in AffirmativeLines

\* C19: process_clipboard_interactive writes the clipboard and the undo
\* file only after an answer that, stripped and lower-cased, is 'y' or
\* 'yes'; after any other answer, end of input or a keyboard interrupt it
\* returns True and leaves the clipboard and the undo file unchanged.
C19_WritesOnlyAfterYes ==
    (op = "process_clipboard_interactive")
    => /\ ~(NoClipboardWrite /\ NoUndoWrite) => (Has(steps, "ask") /\ Affirmed)
       /\ (Returned("process_clipboard_interactive") /\ Has(steps, "ask") /\ ~Affirmed)
            => /\ ret = "True"
               /\ NoClipboardWrite
               /\ NoUndoWrite

\* the answer " YES " was given and the clipboard and the undo file written
C19_Witness ==
    /\ Returned("process_clipboard_interactive")
    /\ response = [kind |-> "line", line |-> <<" ", "Y", "E", "S", " ">>]
    /\ steps = <<"read", "convert", "ask", "save", "write">>
    /\ clipboard # clipboard_before
    /\ undo_file = <<text>>

\* C20: dry_run writes neither the clipboard nor the undo file on any path,
\* and returns False exactly when reading the clipboard or the processor
\* raised.
C20_DryRunWritesNothing ==
    (op = "dry_run")
    => /\ NoClipboardWrite
       /\ NoUndoWrite
       /\ Returned("dry_run")
            => ((ret = "False") <=>
                    \/ Has(steps, "read_failed")
                    \/ Has(steps, "convert") /\ ErrorProcessorSelected)

\* a dry_run that proposed a change
C20_Witness ==
    /\ Returned("dry_run")
    /\ "Proposed changes:" \in printed
    /\ processed # text
    /\ ret = "True"
    /\ clipboard = text

\* what process_clipboard does with the text read and the registered
\* processors (lines 63-83): whether it goes on to write the clipboard, and
\* the text it writes
WouldWrite ==
    LET r == proc_process(select_processor(processors, text), text)
    IN  [writes |-> ~r.raised /\ text_changed(r.out, text), out |-> r.out]

\* C21: for the same non-blank text and the same registered processors,
\* dry_run prints proposed changes exactly when process_clipboard would write
\* the clipboard, and the text it proposes is the text process_clipboard
\* would write.
C21_DryRunPreviewsProcess ==
    (Returned("dry_run") /\ Has(steps, "convert") /\ ~WhitespaceOnly(text))
    => /\ ("Proposed changes:" \in printed) <=> WouldWrite.writes
       /\ ("Proposed changes:" \in printed) => (processed = WouldWrite.out)

\* the text holds no carriage return
NoCarriageReturn(s) == \A i \in 1..Len(s) : s[i] # "CR"

\* C22: with another program writing the clipboard between
\* process_clipboard's read and its write, an undo that follows a successful
\* process_clipboard still restores the text the clipboard held just before
\* process_clipboard overwrote it.
\* (Taken with every file and clipboard access succeeding, with the undo
\* file holding the text process_clipboard saved, and for texts without a
\* carriage return, which the undo file keeps as they are.)
C22_UndoRestoresOverwritten ==
    ( /\ Returned("undo")
      /\ previous.op = "process_clipboard"
      /\ undo_before = <<previous.text>>
      /\ NoCarriageReturn(previous.text)
      /\ NoCarriageReturn(previous.overwritten)
      /\ ~Has(steps, "load_failed")
      /\ ~Has(steps, "write_failed") )
    => /\ ret = "True"
       /\ clipboard = previous.overwritten

\* C23: the decision is monotone in the threshold: when detect_layout with
\* a threshold t2 says the text needs conversion, detect_layout with every
\* threshold t1 <= t2 says so too, with the same intended layout.
C23_ThresholdMonotone ==
    ("get_detection_info" \in called /\ detection.needs_conversion)
    => \A t1 \in Thresholds :
          RGe(confidence_threshold, t1)
          => /\ detect_layout(text, t1).needs_conversion
             /\ detect_layout(text, t1).intended_layout = detection.intended_layout

\* C24: the saved text is read once: an undo that directly follows a
\* successful undo finds no previous content, returns False and does not
\* write the clipboard; undo never writes the undo file.
C24_UndoReadOnce ==
    /\ (Returned("undo") /\ previous.op = "undo")
        => /\ ret = "False"
           /\ "No previous clipboard content to restore." \in printed
           /\ NoClipboardWrite
    /\ (op = "undo") => NoUndoWrite

====
